---------------------------- MODULE Spec2Model ----------------------------
(***************************************************************************)
(* Model of log4rs-syslog-net: the three envelope formats (plain, RFC5424, *)
(* RFC5425), the appender builder and SyslogAppender::append over UDP and  *)
(* TCP.                                                                    *)
(*                                                                         *)
(* A Rust String / byte slice is a sequence of bytes.  A byte is written   *)
(* as a one-character string when it is ASCII ("a", " ", "<", "\n") and as *)
(* "xHH" otherwise ("xC3" is the byte 0xC3).                                *)
(***************************************************************************)
EXTENDS Integers, Sequences, FiniteSets, TLC

VARIABLES
    \* ---- format engine (plain.rs, rfc5424.rs, rfc5425.rs) ----
    fmt,        \* the Format value: kind, facility, hostname, app_name, proc_id
    call,       \* the last encode call: level, encoder output, clock, priority
    out,        \* what the last encode call wrote, or NoOutput / Panicked
    \* ---- appender (lib.rs) ----
    builder,    \* SyslogAppenderBuilder: protocol, addrs, max_len, msg_format
    stage,      \* build(): "builder" before it, then "built" | "failed" | "panicked"
    net,        \* build(): the address handed to the writer and what the network did
    appender,   \* SyslogAppender: writer, msg_format, max_len, protocol
    pc,         \* position of each thread inside append
    local,      \* each thread's locals inside append: bytes, result of the send
    lock,       \* the thread holding Mutex<TcpStream>, or NoThread
    stream,     \* the bytes the TCP peer has received, in order
    datagrams,  \* the UDP datagrams sent, in order
    log,        \* history: one entry per append that has returned
    started     \* number of append calls started

fmtVars == <<fmt, call, out>>
appVars == <<builder, stage, net, appender, pc, local, lock, stream, datagrams,
             log, started>>
vars == <<fmt, call, out, builder, stage, net, appender, pc, local, lock, stream,
          datagrams, log, started>>

-----------------------------------------------------------------------------
(* Integer and text helpers of the Rust standard library *)

DigitChars == <<"0", "1", "2", "3", "4", "5", "6", "7", "8", "9">>

\* Display for unsigned integers: the decimal digits, most significant first.
RECURSIVE ToDecimal(_)
ToDecimal(n) ==
    IF n < 10 THEN <<DigitChars[n + 1]>>
    ELSE ToDecimal(n \div 10) \o <<DigitChars[(n % 10) + 1]>>

\* {:0w} : decimal, left-padded with zeros to width w.
RECURSIVE ZeroPad(_, _)
ZeroPad(n, w) ==
    LET d == ToDecimal(n)
    IN  IF Len(d) >= w THEN d ELSE <<"0">> \o ZeroPad(n, w - 1)

\* u8 | u8, bit by bit.
RECURSIVE BitOr(_, _)
BitOr(a, b) ==
    IF a = 0 THEN b
    ELSE IF b = 0 THEN a
    ELSE (IF (a % 2 = 1) \/ (b % 2 = 1) THEN 1 ELSE 0)
         + 2 * BitOr(a \div 2, b \div 2)

\* `x as u8`
AsU8(x) == x % 256

\* UTF-8 byte classes of the bytes the model uses.
Lead2 == {"xC3"}
Lead3 == {"xE2", "xEF"}
Cont  == {"xA9", "x82", "xAC", "xBF", "xBD"}
ReplacementChar == <<"xEF", "xBF", "xBD">>

IsAscii(b) == b \notin (Lead2 \cup Lead3 \cup Cont)

\* Number of bytes of the well-formed character starting at s[i], 0 if none.
CharLenAt(s, i) ==
    IF IsAscii(s[i]) THEN 1
    ELSE IF s[i] \in Lead2 /\ i + 1 <= Len(s) /\ s[i + 1] \in Cont THEN 2
    ELSE IF s[i] \in Lead3 /\ i + 2 <= Len(s)
            /\ s[i + 1] \in Cont /\ s[i + 2] \in Cont THEN 3
    ELSE 0

\* Length of the maximal ill-formed prefix at s[i] (CharLenAt(s, i) = 0).
BadLenAt(s, i) ==
    IF s[i] \in Lead3 /\ i + 1 <= Len(s) /\ s[i + 1] \in Cont THEN 2 ELSE 1

RECURSIVE ValidFrom(_, _)
ValidFrom(s, i) ==
    IF i > Len(s) THEN TRUE
    ELSE CharLenAt(s, i) > 0 /\ ValidFrom(s, i + CharLenAt(s, i))

\* std::str::from_utf8(..).is_ok(); all-ASCII input is accepted without
\* decoding.
IsUtf8(s) == (\A i \in 1..Len(s) : IsAscii(s[i])) \/ ValidFrom(s, 1)

RECURSIVE LossyFrom(_, _)
LossyFrom(s, i) ==
    IF i > Len(s) THEN <<>>
    ELSE LET n == CharLenAt(s, i)
         IN  IF n > 0 THEN SubSeq(s, i, i + n - 1) \o LossyFrom(s, i + n)
             ELSE ReplacementChar \o LossyFrom(s, i + BadLenAt(s, i))

\* String::from_utf8_lossy: well-formed input is borrowed as it is, otherwise
\* each ill-formed sequence becomes U+FFFD.
FromUtf8Lossy(s) == IF IsUtf8(s) THEN s ELSE LossyFrom(s, 1)

\* str::chars().count(): the bytes that are not continuation bytes.
CharCount(s) == Cardinality({i \in 1..Len(s) : s[i] \notin Cont})

\* str::as_bytes().len()
ByteLen(s) == Len(s)

-----------------------------------------------------------------------------
(* consts.rs: Facility, level_to_severity, NILVALUE *)

\* Facility: the 24 syslog facilities, each stored as its code shifted left 3.
Facility ==
    [KERN |-> 0, USER |-> 8, MAIL |-> 16, DAEMON |-> 24, AUTH |-> 32,
     SYSLOG |-> 40, LPR |-> 48, NEWS |-> 56, UUCP |-> 64, CRON |-> 72,
     AUTHPRIV |-> 80, FTP |-> 88, NTP |-> 96, AUDIT |-> 104, ALERT |-> 112,
     CLOCK |-> 120, LOCAL0 |-> 128, LOCAL1 |-> 136, LOCAL2 |-> 144,
     LOCAL3 |-> 152, LOCAL4 |-> 160, LOCAL5 |-> 168, LOCAL6 |-> 176,
     LOCAL7 |-> 184]

FacilityNames == DOMAIN Facility

Levels == {"Error", "Warn", "Info", "Debug", "Trace"}

level_to_severity(level) ==
    CASE level = "Error" -> 3
      [] level = "Warn"  -> 4
      [] level = "Info"  -> 6
      [] level = "Debug" -> 7
      [] level = "Trace" -> 7

NILVALUE == <<"-">>

-----------------------------------------------------------------------------
(* chrono: the two renderings of Utc::now() the formats use *)

\* Readings of the clock: [year, month, day, hour, min, sec, nano].
Clocks ==
    { [year |-> 2024, month |-> 1, day |-> 2, hour |-> 3, min |-> 4,
       sec |-> 5, nano |-> ns] : ns \in {0, 120000000, 123456789} }

DateText(t) ==
    ZeroPad(t.year, 4) \o <<"-">> \o ZeroPad(t.month, 2) \o <<"-">>
        \o ZeroPad(t.day, 2)

ClockText(t) ==
    ZeroPad(t.hour, 2) \o <<":">> \o ZeroPad(t.min, 2) \o <<":">>
        \o ZeroPad(t.sec, 2)

\* Display for NaiveTime: no fraction, or 3, 6 or 9 digits of it.
FractionText(nano) ==
    IF nano = 0 THEN <<>>
    ELSE IF nano % 1000000 = 0 THEN <<".">> \o ZeroPad(nano \div 1000000, 3)
    ELSE IF nano % 1000 = 0 THEN <<".">> \o ZeroPad(nano \div 1000, 6)
    ELSE <<".">> \o ZeroPad(nano, 9)

\* format!("{}", chrono::Utc::now()): Display for DateTime<Utc> is
\* "<date> <time> UTC".
DisplayUtc(t) ==
    DateText(t) \o <<" ">> \o ClockText(t) \o FractionText(t.nano)
        \o <<" ">> \o <<"U", "T", "C">>

\* Utc::now().to_rfc3339_opts(SecondsFormat::Millis, false)
Rfc3339Millis(t) ==
    DateText(t) \o <<"T">> \o ClockText(t) \o <<".">>
        \o ZeroPad(t.nano \div 1000000, 3) \o <<"+", "0", "0", ":", "0", "0">>

-----------------------------------------------------------------------------
(* The three formats *)

Kinds == {"Plain", "Rfc5424", "Rfc5425"}

\* std::process::id() of the running process.
ProcessIds == {4242}

\* rfc5424::Format::new / rfc5425::Format::new; plain::Format has no fields
\* and leaves these unused.
FormatNew(kind, pid) ==
    [kind |-> kind, facility |-> "LOCAL0", hostname |-> <<>>,
     app_name |-> <<>>, proc_id |-> ToDecimal(pid)]

\* Variant of Priority that shifts the stored facility value left 3 bits again.
PriorityShifted(facility, level) ==
    BitOr(AsU8(Facility[facility] * 8), level_to_severity(level))

\* self.facility as u8 | level_to_severity(record.level())
Priority(facility, level) ==
    BitOr(AsU8(Facility[facility]), level_to_severity(level))

\* Variant of PlainLine without the space after the priority.
PlainLineNoSpace(priority, msg) ==
    <<"<">> \o ToDecimal(priority) \o <<">">> \o msg \o <<"\n">>

\* plain: format!("<{}> {}\n", priority, msg)
PlainLine(priority, msg) ==
    <<"<">> \o ToDecimal(priority) \o <<">", " ">> \o msg \o <<"\n">>

\* rfc5424 / rfc5425: format!("<{}>{} {} {} {} {} {} {} {}\n", priority, 1,
\*   timestamp, hostname, app_name, proc_id, msg_id, struct_data, msg)
HeaderLine(priority, ts, f, msg) ==
    <<"<">> \o ToDecimal(priority) \o <<">">> \o ToDecimal(1) \o <<" ">>
        \o ts \o <<" ">> \o f.hostname \o <<" ">> \o f.app_name \o <<" ">>
        \o f.proc_id \o <<" ">> \o ToDecimal(0) \o <<" ">> \o NILVALUE
        \o <<" ">> \o msg \o <<"\n">>

\* Variant of OctetFrame that counts characters (msg.chars().count()).
OctetFrameChars(line) == ToDecimal(CharCount(line)) \o <<" ">> \o line

\* rfc5425: format!("{} {}", msg.as_bytes().len(), msg)
OctetFrame(line) == ToDecimal(ByteLen(line)) \o <<" ">> \o line

Timestamp5424(now) == DisplayUtc(now)

Timestamp5425(now) == Rfc3339Millis(now)

NoOutput == [status |-> "none", bytes |-> <<>>]
Panicked == [status |-> "panic", bytes |-> <<>>]
Failed   == [status |-> "err", bytes |-> <<>>]
Written(b) == [status |-> "ok", bytes |-> b]

\* plain::Format::encode
PlainEncode(f, level, render) ==
    IF ~render.ok THEN Failed
    ELSE Written(PlainLine(Priority("USER", level), FromUtf8Lossy(render.buf)))

\* rfc5424::Format::encode
Rfc5424Encode(f, level, render, now) ==
    IF ~render.ok THEN Failed
    ELSE Written(HeaderLine(Priority(f.facility, level), Timestamp5424(now),
                            f, FromUtf8Lossy(render.buf)))

\* rfc5425::Format::encode; from_utf8(&buf).unwrap() panics on ill-formed text
Rfc5425Encode(f, level, render, now) ==
    IF ~render.ok THEN Failed
    ELSE IF ~IsUtf8(render.buf) THEN Panicked
    ELSE Written(OctetFrame(HeaderLine(Priority(f.facility, level),
                                       Timestamp5425(now), f, render.buf)))

\* MessageFormat::format: dispatch on the variant
FormatMessage(f, level, render, now) ==
    CASE f.kind = "Plain"   -> PlainEncode(f, level, render)
      [] f.kind = "Rfc5424" -> Rfc5424Encode(f, level, render, now)
      [] f.kind = "Rfc5425" -> Rfc5425Encode(f, level, render, now)

\* The priority the variant computes for a record.
PriorityOf(f, level) ==
    IF f.kind = "Plain" THEN Priority("USER", level)
    ELSE Priority(f.facility, level)

-----------------------------------------------------------------------------
(* Inputs of the format engine *)

\* What the wrapped encoder wrote into buf: "", "m", "hello", the two-byte
\* character U+00E9, "a" followed by the three-byte U+20AC, and two
\* ill-formed outputs (a lone continuation byte, a cut-off lead byte).
Bodies ==
    { <<>>, <<"m">>, <<"h", "e", "l", "l", "o">>, <<"xC3", "xA9">>,
      <<"a", "xE2", "x82", "xAC">>, <<"xA9">>, <<"xC3", "m">> }

\* The wrapped encoder's result: Ok with the bytes written, or Err.
Renders == {[ok |-> TRUE, buf |-> b] : b \in Bodies} \cup {[ok |-> FALSE, buf |-> <<>>]}

Hostnames == {<<>>, <<"h">>}
AppNames  == {<<>>, <<"a">>}
ProcIds   == {<<>>, <<"1">>}

FmtClocks == {t \in Clocks : t.nano \in {0, 123456789}}

NoPriority == 0 - 1
NoCall == [level |-> "none", render |-> [ok |-> FALSE, buf |-> <<>>],
           now |-> CHOOSE t \in Clocks : t.nano = 0, priority |-> NoPriority]

\* The priority an encode call computes, if it gets that far: plain renders
\* the body first (plain.rs:30), the RFC formats compute the priority first.
ComputedPriority(f, level, render) ==
    IF f.kind = "Plain" /\ ~render.ok THEN NoPriority ELSE PriorityOf(f, level)

\* Format::facility
SetFacility(fac) ==
    /\ fmt.kind # "Plain" /\ out = NoOutput
    /\ fmt' = [fmt EXCEPT !.facility = fac]
    /\ UNCHANGED <<call, out>>

\* Format::hostname
SetHostname(h) ==
    /\ fmt.kind # "Plain" /\ out = NoOutput
    /\ fmt' = [fmt EXCEPT !.hostname = h]
    /\ UNCHANGED <<call, out>>

\* Format::app_name
SetAppName(a) ==
    /\ fmt.kind # "Plain" /\ out = NoOutput
    /\ fmt' = [fmt EXCEPT !.app_name = a]
    /\ UNCHANGED <<call, out>>

\* Format::proc_id
SetProcId(p) ==
    /\ fmt.kind # "Plain" /\ out = NoOutput
    /\ fmt' = [fmt EXCEPT !.proc_id = p]
    /\ UNCHANGED <<call, out>>

\* One call of <Format as Encode>::encode, on the record at hand.
Encode ==
    /\ out = NoOutput
    /\ out' = FormatMessage(fmt, call.level, call.render, call.now)
    /\ call' = [call EXCEPT !.priority =
                   ComputedPriority(fmt, call.level, call.render)]
    /\ UNCHANGED fmt

-----------------------------------------------------------------------------
(* lib.rs: the builder *)

DEFAULT_PORT == 514
DEFAULT_MAX_LENGTH == 2048
DEFAULT_ADDRESS ==
    <<"l", "o", "c", "a", "l", "h", "o", "s", "t", ":", "5", "1", "4">>
DEFAULT_PROTOCOL == "UDP"

Protocols == {"UDP", "TCP"}

\* Addresses the application configures: without and with a port.
Addresses == { <<"h">>, <<"h", ":", "9">> }

\* Formats the application selects with format().
AppKinds == {"Plain", "Rfc5425"}

\* Values the application passes to max_len().
MaxLens == {4, DEFAULT_MAX_LENGTH}

\* str::find(c): the index of the first occurrence of c, or 0 for None.
Find(s, c) ==
    IF \E i \in 1..Len(s) : s[i] = c
    THEN CHOOSE i \in 1..Len(s) : s[i] = c /\ \A j \in 1..(i - 1) : s[j] # c
    ELSE 0

\* Variant of norm_addrs that pushes the port whether or not one is there.
norm_addrs_always(addrs) == (addrs \o <<":">>) \o ToDecimal(DEFAULT_PORT)

\* norm_addrs: push ':' and DEFAULT_PORT.to_string() when there is no ':'.
norm_addrs(addrs) ==
    IF ~(Find(addrs, ":") # 0)
    THEN (addrs \o <<":">>) \o ToDecimal(DEFAULT_PORT)
    ELSE addrs

\* SyslogAppenderBuilder::new
BuilderNew ==
    [protocol |-> DEFAULT_PROTOCOL, addrs |-> DEFAULT_ADDRESS,
     max_len |-> DEFAULT_MAX_LENGTH, msg_format |-> FormatNew("Plain", 4242)]

NoAppender == [writer |-> "none", msg_format |-> FormatNew("Plain", 4242),
               max_len |-> 0, protocol |-> "none"]
NoNet == [addr |-> <<>>, outcome |-> "none"]

\* What the network does during udp_writer: the bind fails, the address does
\* not resolve, it resolves to no address, or all succeed.
UdpOutcomes == {"ok", "bind_fails", "resolve_fails", "no_address"}
\* What the network does during tcp_writer: TcpStream::connect fails (on
\* resolution or on connecting) or succeeds.
TcpOutcomes == {"ok", "resolve_fails", "connect_fails"}

\* udp_writer: every failure is an unwrap() on Err / None.
udp_writer(outcome) == IF outcome = "ok" THEN "Udp" ELSE "panic"

\* tcp_writer: TcpStream::connect(rem).unwrap()
tcp_writer(outcome) == IF outcome = "ok" THEN "Tcp" ELSE "panic"

\* SyslogAppenderBuilder::protocol
SetProtocol(p) ==
    /\ stage = "builder"
    /\ builder' = [builder EXCEPT !.protocol = p]
    /\ UNCHANGED <<stage, net, appender, pc, local, lock, stream, datagrams, log, started>>

\* SyslogAppenderBuilder::address
SetAddress(a) ==
    /\ stage = "builder"
    /\ builder' = [builder EXCEPT !.addrs = a]
    /\ UNCHANGED <<stage, net, appender, pc, local, lock, stream, datagrams, log, started>>

\* SyslogAppenderBuilder::format
SetFormat(k) ==
    /\ stage = "builder"
    /\ builder' = [builder EXCEPT !.msg_format = FormatNew(k, 4242)]
    /\ UNCHANGED <<stage, net, appender, pc, local, lock, stream, datagrams, log, started>>

\* SyslogAppenderBuilder::max_len
SetMaxLen(ml) ==
    /\ stage = "builder"
    /\ builder' = [builder EXCEPT !.max_len = ml]
    /\ UNCHANGED <<stage, net, appender, pc, local, lock, stream, datagrams, log, started>>

\* SyslogAppenderBuilder::build.  The builder is consumed; the model keeps its
\* record as configured and puts the normalized address in net.addr.
Build(outcome) ==
    /\ stage = "builder"
    /\ outcome \in (IF builder.protocol = "UDP" THEN UdpOutcomes ELSE TcpOutcomes)
    /\ LET addrs  == norm_addrs(builder.addrs)
           writer == IF builder.protocol = "UDP" THEN udp_writer(outcome)
                     ELSE tcp_writer(outcome)
       IN  /\ net' = [addr |-> addrs, outcome |-> outcome]
           /\ IF writer = "panic"
              THEN /\ stage' = "panicked"
                   /\ appender' = NoAppender
              ELSE /\ stage' = "built"
                   /\ appender' = [writer |-> writer,
                                   msg_format |-> builder.msg_format,
                                   max_len |-> builder.max_len,
                                   protocol |-> builder.protocol]
    /\ UNCHANGED <<builder, pc, local, lock, stream, datagrams, log, started>>

-----------------------------------------------------------------------------
(* lib.rs: SyslogAppender::append *)

NumThreads == 2
MaxAppends == 3
LongLen == 2050

Threads == 1..NumThreads

\* Records the threads log through the appender: a short body, and one the
\* encoder fails on.
AppRenders ==
    { [ok |-> TRUE, buf |-> <<"m">>],
      [ok |-> FALSE, buf |-> <<>>] }

\* Records around the length limit: a body whose payload stays under
\* DEFAULT_MAX_LENGTH, one whose payload exceeds it, and an ill-formed one.
LongRenders ==
    { [ok |-> TRUE, buf |-> <<"m">>],
      [ok |-> TRUE, buf |-> [i \in 1..LongLen |-> "a"]],
      [ok |-> TRUE, buf |-> <<"xA9">>] }
AppLevels == {"Error"}
AppClocks == {t \in Clocks : t.nano = 120000000}

\* The locals of a thread inside append: the formatted message, the bytes to
\* send, the number of send calls made, their result.
NoLocal == [msg |-> <<>>, bytes |-> <<>>, attempts |-> 0, sent |-> 0,
            result |-> "none"]

\* lib.rs:89-91: the length check and the cut.
Truncate(bytes, max_len) ==
    IF Len(bytes) > DEFAULT_MAX_LENGTH
    THEN SubSeq(bytes, 1, DEFAULT_MAX_LENGTH)
    ELSE bytes

\* Io::Write::write may accept only a part of the buffer: the counts tried.
WriteCounts(len) == {len} \cup {n \in {len \div 2} : n < len}

\* The guard of Mutex::lock: granted when no thread holds the mutex.
CanLock(t, holders) == holders = {}

\* Variant of Unlock that releases the mutex only after a successful write.
UnlockOnOk(t, holders, result) ==
    IF result = "Ok" THEN holders \ {t} ELSE holders

\* The MutexGuard is dropped when the Tcp arm ends, on Ok and on `?` alike.
Unlock(t, holders, result) == holders \ {t}

\* The history entry of an append that has returned.
Entry(t, l) == [thread |-> t, msg |-> l.msg, bytes |-> l.bytes, sent |-> l.sent,
                attempts |-> l.attempts, result |-> l.result]

\* append, when msg_format.format returns Err (passed on by `?`) or panics.
AppendNoSend(t, level, render, now) ==
    /\ stage = "built" /\ pc[t] = "idle" /\ started < MaxAppends
    /\ LET r == FormatMessage(appender.msg_format, level, render, now)
           l == [NoLocal EXCEPT !.result = "Err"]
       IN  /\ r.status # "ok"
           /\ IF r.status = "err"
              THEN /\ log' = Append(log, Entry(t, l))
                   /\ pc' = pc
              ELSE /\ log' = log
                   /\ pc' = [pc EXCEPT ![t] = "panicked"]
    /\ started' = started + 1
    /\ UNCHANGED <<builder, stage, net, appender, local, lock, stream, datagrams>>

\* append on a Udp writer: format, cut, one send_to, return.
AppendUdp(t, level, render, now, sendOk) ==
    /\ stage = "built" /\ pc[t] = "idle" /\ started < MaxAppends
    /\ appender.writer = "Udp"
    /\ LET r == FormatMessage(appender.msg_format, level, render, now)
           bytes == Truncate(r.bytes, appender.max_len)
           l == [msg |-> r.bytes, bytes |-> bytes, attempts |-> 1,
                 sent |-> IF sendOk THEN Len(bytes) ELSE 0,
                 result |-> IF sendOk THEN "Ok" ELSE "Err"]
       IN  /\ r.status = "ok"
           /\ datagrams' = IF sendOk THEN Append(datagrams, bytes) ELSE datagrams
           /\ log' = Append(log, Entry(t, l))
    /\ started' = started + 1
    /\ UNCHANGED <<builder, stage, net, appender, pc, local, lock, stream>>

\* append on a Tcp writer, up to the call of lock(): format and cut.
AppendTcp(t, level, render, now) ==
    /\ stage = "built" /\ pc[t] = "idle" /\ started < MaxAppends
    /\ appender.writer = "Tcp"
    /\ LET r == FormatMessage(appender.msg_format, level, render, now)
       IN  /\ r.status = "ok"
           /\ local' = [local EXCEPT ![t] =
                  [NoLocal EXCEPT !.msg = r.bytes,
                                  !.bytes = Truncate(r.bytes, appender.max_len)]]
    /\ pc' = [pc EXCEPT ![t] = "wait"]
    /\ started' = started + 1
    /\ UNCHANGED <<builder, stage, net, appender, lock, stream, datagrams, log>>

\* stream_w.lock().unwrap(): blocks until the mutex is free.
TcpLock(t) ==
    /\ pc[t] = "wait"
    /\ CanLock(t, lock)
    /\ lock' = lock \cup {t}
    /\ pc' = [pc EXCEPT ![t] = "locked"]
    /\ UNCHANGED <<builder, stage, net, appender, local, stream, datagrams, log, started>>

\* stream.write(bytes): Ok(n) after n bytes went out.
TcpWriteOk(t) ==
    /\ pc[t] = "locked"
    /\ \E n \in WriteCounts(Len(local[t].bytes)) :
          /\ stream' = stream \o SubSeq(local[t].bytes, 1, n)
          /\ local' = [local EXCEPT ![t].attempts = @ + 1, ![t].sent = n,
                                    ![t].result = "Ok"]
    /\ pc' = [pc EXCEPT ![t] = "written"]
    /\ UNCHANGED <<builder, stage, net, appender, lock, datagrams, log, started>>

\* Variant of TcpWriteErr that writes again after the failure.
TcpWriteErrRetry(t) ==
    /\ pc[t] = "locked"
    /\ stream' = stream \o local[t].bytes
    /\ local' = [local EXCEPT ![t].attempts = @ + 2,
                              ![t].sent = Len(local[t].bytes),
                              ![t].result = "Ok"]
    /\ pc' = [pc EXCEPT ![t] = "written"]
    /\ UNCHANGED <<builder, stage, net, appender, lock, datagrams, log, started>>

\* stream.write(bytes): Err, nothing went out.
TcpWriteErr(t) ==
    /\ pc[t] = "locked"
    /\ local' = [local EXCEPT ![t].attempts = @ + 1, ![t].result = "Err"]
    /\ pc' = [pc EXCEPT ![t] = "written"]
    /\ UNCHANGED <<builder, stage, net, appender, lock, stream, datagrams, log, started>>

\* The end of the Tcp arm: the guard is dropped and append returns.
TcpReturn(t) ==
    /\ pc[t] = "written"
    /\ lock' = Unlock(t, lock, local[t].result)
    /\ log' = Append(log, Entry(t, local[t]))
    /\ local' = [local EXCEPT ![t] = NoLocal]
    /\ pc' = [pc EXCEPT ![t] = "idle"]
    /\ UNCHANGED <<builder, stage, net, appender, stream, datagrams, started>>

-----------------------------------------------------------------------------
(* Specifications *)

\* The appender side at rest, for the format engine's specification.
AppInit ==
    /\ builder = BuilderNew
    /\ stage = "builder"
    /\ net = NoNet
    /\ appender = NoAppender
    /\ pc = [t \in Threads |-> "idle"]
    /\ local = [t \in Threads |-> NoLocal]
    /\ lock = {}
    /\ stream = <<>>
    /\ datagrams = <<>>
    /\ log = <<>>
    /\ started = 0

\* A fresh Format of one of the three kinds, and the record it will encode:
\* its level, what the wrapped encoder renders for it, and the clock reading.
FmtInit ==
    /\ \E k \in Kinds, pid \in ProcessIds : fmt = FormatNew(k, pid)
    /\ \E lv \in Levels, r \in Renders, now \in FmtClocks :
          call = [level |-> lv, render |-> r, now |-> now, priority |-> NoPriority]
    /\ out = NoOutput

\* The appender on the network: the builder's protocol and address, build,
\* then appends from every thread.
Init ==
    /\ AppInit
    /\ fmt = FormatNew("Plain", 4242)
    /\ call = NoCall
    /\ out = NoOutput

Next ==
    \/ \E p \in Protocols : SetProtocol(p) /\ UNCHANGED fmtVars
    \/ \E a \in Addresses : SetAddress(a) /\ UNCHANGED fmtVars
    \/ \E o \in UdpOutcomes \cup TcpOutcomes : Build(o) /\ UNCHANGED fmtVars
    \/ \E t \in Threads, lv \in AppLevels, r \in AppRenders, now \in AppClocks :
          AppendNoSend(t, lv, r, now) /\ UNCHANGED fmtVars
    \/ \E t \in Threads, lv \in AppLevels, r \in AppRenders, now \in AppClocks,
          ok \in BOOLEAN :
          AppendUdp(t, lv, r, now, ok) /\ UNCHANGED fmtVars
    \/ \E t \in Threads, lv \in AppLevels, r \in AppRenders, now \in AppClocks :
          AppendTcp(t, lv, r, now) /\ UNCHANGED fmtVars
    \/ \E t \in Threads : TcpLock(t) /\ UNCHANGED fmtVars
    \/ \E t \in Threads : TcpWriteOk(t) /\ UNCHANGED fmtVars
    \/ \E t \in Threads : TcpWriteErr(t) /\ UNCHANGED fmtVars
    \/ \E t \in Threads : TcpReturn(t) /\ UNCHANGED fmtVars

Spec == Init /\ [][Next]_vars

\* One thread logging records around the length limit, through every format
\* and max_len the builder is given.
NextTrunc ==
    \/ \E p \in Protocols : SetProtocol(p) /\ UNCHANGED fmtVars
    \/ \E ml \in MaxLens : SetMaxLen(ml) /\ UNCHANGED fmtVars
    \/ \E k \in AppKinds : SetFormat(k) /\ UNCHANGED fmtVars
    \/ Build("ok") /\ UNCHANGED fmtVars
    \/ \E lv \in AppLevels, r \in LongRenders, now \in AppClocks :
          AppendNoSend(1, lv, r, now) /\ UNCHANGED fmtVars
    \/ \E lv \in AppLevels, r \in LongRenders, now \in AppClocks, ok \in BOOLEAN :
          AppendUdp(1, lv, r, now, ok) /\ UNCHANGED fmtVars
    \/ \E lv \in AppLevels, r \in LongRenders, now \in AppClocks :
          AppendTcp(1, lv, r, now) /\ UNCHANGED fmtVars
    \/ TcpLock(1) /\ UNCHANGED fmtVars
    \/ TcpWriteOk(1) /\ UNCHANGED fmtVars
    \/ TcpWriteErr(1) /\ UNCHANGED fmtVars
    \/ TcpReturn(1) /\ UNCHANGED fmtVars

SpecTrunc == Init /\ [][NextTrunc]_vars

\* The format engine alone: configure a Format, then encode records with it.
InitFmt == AppInit /\ FmtInit

NextFmt ==
    \/ \E f \in FacilityNames : SetFacility(f) /\ UNCHANGED appVars
    \/ \E h \in Hostnames : SetHostname(h) /\ UNCHANGED appVars
    \/ \E a \in AppNames : SetAppName(a) /\ UNCHANGED appVars
    \/ \E p \in ProcIds : SetProcId(p) /\ UNCHANGED appVars
    \/ Encode /\ UNCHANGED appVars

SpecFmt == InitFmt /\ [][NextFmt]_vars

\* The appender under the scheduling the lock claim assumes: a write call
\* returns, a thread that has returned from write leaves append, and the
\* mutex is granted fairly to a thread that keeps asking for it.
Fairness ==
    \A t \in Threads :
        /\ SF_vars(TcpLock(t) /\ UNCHANGED fmtVars)
        /\ WF_vars((TcpWriteOk(t) \/ TcpWriteErr(t)) /\ UNCHANGED fmtVars)
        /\ WF_vars(TcpReturn(t) /\ UNCHANGED fmtVars)

SpecFair == Spec /\ Fairness

-----------------------------------------------------------------------------
(* Helpers of the properties *)

HasColon(s) == \E i \in 1..Len(s) : s[i] = ":"

IsDigit(b) == \E d \in 1..10 : DigitChars[d] = b

DigitValue(b) == (CHOOSE d \in 1..10 : DigitChars[d] = b) - 1

\* The number a sequence of decimal digits denotes.
RECURSIVE ParseDecimal(_)
ParseDecimal(ds) ==
    IF Len(ds) = 0 THEN 0
    ELSE 10 * ParseDecimal(SubSeq(ds, 1, Len(ds) - 1)) + DigitValue(ds[Len(ds)])

StartsWith(s, p) == Len(s) >= Len(p) /\ SubSeq(s, 1, Len(p)) = p

EndsWith(s, p) == Len(s) >= Len(p) /\ SubSeq(s, Len(s) - Len(p) + 1, Len(s)) = p

\* The facilities in the order of their syslog codes 0..23.
FacilityOrder ==
    <<"KERN", "USER", "MAIL", "DAEMON", "AUTH", "SYSLOG", "LPR", "NEWS",
      "UUCP", "CRON", "AUTHPRIV", "FTP", "NTP", "AUDIT", "ALERT", "CLOCK",
      "LOCAL0", "LOCAL1", "LOCAL2", "LOCAL3", "LOCAL4", "LOCAL5", "LOCAL6",
      "LOCAL7">>

FacilityCode(f) == (CHOOSE i \in 1..Len(FacilityOrder) : FacilityOrder[i] = f) - 1

SeverityTable == [Error |-> 3, Warn |-> 4, Info |-> 6, Debug |-> 7, Trace |-> 7]

\* The facility an encode call of the format uses.
UsedFacility == IF fmt.kind = "Plain" THEN "USER" ELSE fmt.facility

RECURSIVE SumSent(_)
SumSent(entries) ==
    IF Len(entries) = 0 THEN 0
    ELSE entries[Len(entries)].sent + SumSent(SubSeq(entries, 1, Len(entries) - 1))

RECURSIVE SumOf(_, _)
SumOf(f, S) ==
    IF S = {} THEN 0
    ELSE LET x == CHOOSE y \in S : TRUE IN f[x] + SumOf(f, S \ {x})

\* The history entries of the appends that returned Ok after a send.
OkEntries == {i \in 1..Len(log) : log[i].result = "Ok"}

\* Every order in which the entries I can be arranged.
Orders(I) ==
    {o \in [1..Cardinality(I) -> I] : \A a, b \in 1..Cardinality(I) : a # b => o[a] # o[b]}

RECURSIVE ConcatPayloads(_, _)
ConcatPayloads(o, n) ==
    IF n = 0 THEN <<>> ELSE ConcatPayloads(o, n - 1) \o log[o[n]].bytes

-----------------------------------------------------------------------------
(* The claims *)

\* C1: for every append that reached the transport, with M the appender's
\* max_len and L the length of the formatted payload: the bytes handed to the
\* transport are the first M bytes of the payload when L > M, and the whole
\* payload when L <= M.
C1_TruncatesToMaxLen ==
    \A i \in 1..Len(log) :
        log[i].attempts > 0 =>
            log[i].bytes =
                IF Len(log[i].msg) > appender.max_len
                THEN SubSeq(log[i].msg, 1, appender.max_len)
                ELSE log[i].msg

\* C2: under TCP, once every write has returned to its caller, the bytes on
\* the stream are the complete payloads of the appends that returned Ok,
\* concatenated in some order.
C2_StreamIsWholePayloads ==
    (appender.writer = "Tcp" /\ \A t \in Threads : pc[t] # "written") =>
        \E o \in Orders(OkEntries) :
            stream = ConcatPayloads(o, Cardinality(OkEntries))

\* C3: build never aborts: when the address does not resolve, the bind fails
\* or the connect fails it returns an error and produces no appender, and it
\* returns Ok only when the socket or connection was opened.
C3_BuildReturnsError ==
    /\ stage # "panicked"
    /\ (stage = "built" => net.outcome = "ok")
    /\ (net.outcome \notin {"none", "ok"} =>
            stage = "failed" /\ appender = NoAppender)

\* C4, the state part: an append whose send failed made exactly one send
\* call and put nothing on the wire: every byte on the stream and every
\* datagram is accounted for by the single send of an append that succeeded.
C4_OneAttemptNothingKept ==
    /\ \A i \in 1..Len(log) :
          /\ log[i].attempts <= 1
          /\ log[i].result = "Err" => log[i].sent = 0
    /\ \A t \in Threads :
          /\ local[t].attempts <= 1
          /\ pc[t] \in {"idle", "panicked"} => local[t] = NoLocal
    /\ Len(stream) = IF appender.writer = "Tcp"
                     THEN SumSent(log)
                          + SumOf([t \in Threads |-> local[t].sent], Threads)
                     ELSE 0
    /\ Len(datagrams) = Cardinality({i \in 1..Len(log) :
                            appender.writer = "Udp" /\ log[i].result = "Ok"})

\* C4: for every append whose send or write fails, append returns an error
\* for that message only, the payload is neither sent again nor kept for
\* later, and the appender's writer, format, protocol and max_len are the
\* same after every step as before it, so a later append makes its own single
\* send on the same socket or connection.
C4_FailedSendLeavesAppender ==
    /\ []C4_OneAttemptNothingKept
    /\ [][stage = "built" => appender' = appender]_vars

\* C4 witness: a send failed, and a later append on the same appender made
\* its own single send, which succeeded.
C4_Witness ==
    \E i, j \in 1..Len(log) :
        /\ i < j
        /\ log[i].result = "Err" /\ log[i].attempts = 1
        /\ log[j].result = "Ok" /\ log[j].attempts = 1

\* C5: the bytes the RFC5425 format emits are a decimal number N, one space,
\* and the line (header, body, newline), and N is the byte length of
\* everything after the first space; for ASCII and multi-byte bodies alike.
C5_OctetCountIsByteLength ==
    (fmt.kind = "Rfc5425" /\ out.status = "ok") =>
        LET b    == out.bytes
            sp   == CHOOSE i \in 1..Len(b) : b[i] = " " /\ \A j \in 1..(i - 1) : b[j] # " "
            num  == SubSeq(b, 1, sp - 1)
            line == SubSeq(b, sp + 1, Len(b))
        IN  /\ \E i \in 1..Len(b) : b[i] = " "
            /\ Len(num) > 0 /\ \A i \in 1..Len(num) : IsDigit(num[i])
            /\ ParseDecimal(num) = Len(line)
            /\ StartsWith(line, <<"<">>)
            /\ EndsWith(line, <<" ">> \o call.render.buf \o <<"\n">>)

\* C5 witness: an RFC5425 line was emitted for a body holding a multi-byte
\* character.
C5_Witness ==
    /\ fmt.kind = "Rfc5425" /\ out.status = "ok"
    /\ \E i \in 1..Len(call.render.buf) : ~IsAscii(call.render.buf[i])

\* C6: the RFC5424 output is "<PRI>1 " + timestamp + " " + hostname + " " +
\* app_name + " " + proc_id + " 0 - " + body + "\n" with the timestamp a
\* single token holding no space.
C6_Rfc5424Line ==
    (fmt.kind = "Rfc5424" /\ out.status = "ok" /\ IsUtf8(call.render.buf)) =>
        LET b    == out.bytes
            head == <<"<">> \o ToDecimal(8 * FacilityCode(fmt.facility)
                                         + SeverityTable[call.level])
                        \o <<">", "1", " ">>
            tail == <<" ">> \o fmt.hostname \o <<" ">> \o fmt.app_name \o <<" ">>
                        \o fmt.proc_id \o <<" ", "0", " ", "-", " ">>
                        \o call.render.buf \o <<"\n">>
            ts   == SubSeq(b, Len(head) + 1, Len(b) - Len(tail))
        IN  /\ Len(b) > Len(head) + Len(tail)
            /\ StartsWith(b, head)
            /\ EndsWith(b, tail)
            /\ \A i \in 1..Len(ts) : ts[i] # " "

\* C7: build hands the writer the configured address followed by ":514" when
\* the address holds no ':', and the address unchanged when it holds one;
\* normalizing the result again changes nothing.
C7_AddressNormalized ==
    net.outcome # "none" =>
        /\ net.addr = IF HasColon(builder.addrs) THEN builder.addrs
                      ELSE builder.addrs \o <<":", "5", "1", "4">>
        /\ norm_addrs(net.addr) = net.addr

\* C7 witness: build ran on an address without a port.
C7_Witness ==
    /\ net.outcome # "none"
    /\ builder.addrs = <<"h">>
    /\ net.addr = <<"h", ":", "5", "1", "4">>

\* The decimal text of the plain format's priority, USER | severity.
PlainPriText ==
    [Error |-> <<"1", "1">>, Warn |-> <<"1", "2">>, Info |-> <<"1", "4">>,
     Debug |-> <<"1", "5">>, Trace |-> <<"1", "5">>]

\* C8: the plain format's output is "<" + PRI + "> " + body + "\n" with
\* PRI = USER | severity(level) and nothing else; body "hello" at level Error
\* gives "<11> hello\n".
C8_PlainLine ==
    (fmt.kind = "Plain" /\ out.status = "ok" /\ IsUtf8(call.render.buf)) =>
        /\ out.bytes = <<"<">> \o PlainPriText[call.level] \o <<">", " ">>
                          \o call.render.buf \o <<"\n">>
        /\ (call.level = "Error" /\ call.render.buf = <<"h", "e", "l", "l", "o">>) =>
               out.bytes = <<"<", "1", "1", ">", " ", "h", "e", "l", "l", "o", "\n">>

\* C8 witness: the plain format encoded "hello" at level Error.
C8_Witness ==
    /\ fmt.kind = "Plain" /\ out.status = "ok"
    /\ call.level = "Error" /\ call.render.buf = <<"h", "e", "l", "l", "o">>

\* C9: for every facility and level the priority an encode call computes is
\* 8 * (facility code) + severity(level), a function of the pair alone, within
\* 0..191, with Error 3, Warn 4, Info 6, Debug and Trace 7; USER with Error
\* gives 11.
C9_PriorityRange ==
    call.priority # NoPriority =>
        /\ call.priority = 8 * FacilityCode(UsedFacility) + SeverityTable[call.level]
        /\ call.priority \in 0..191
        /\ (UsedFacility = "USER" /\ call.level = "Error") => call.priority = 11

\* C9 witness: a priority was computed for the highest facility at the
\* highest severity code.
C9_Witness ==
    /\ call.priority # NoPriority
    /\ fmt.kind # "Plain" /\ fmt.facility = "LOCAL7" /\ call.level = "Trace"

\* C10, the state part: at most one thread holds the stream lock, and the
\* holders are exactly the threads between lock() and the return of append.
C10_LockHeldOnlyInside ==
    /\ Cardinality(lock) <= 1
    /\ \A t \in Threads : t \in lock <=> pc[t] \in {"locked", "written"}

\* C10: under TCP at most one thread holds the stream lock, every append that
\* acquired it has released it when it returns, after a failed write as after
\* a successful one, and (write calls returning, the lock granted fairly) every
\* thread waiting in append eventually acquires the lock and returns.
C10_LockReleasedAndGranted ==
    /\ []C10_LockHeldOnlyInside
    /\ \A t \in Threads : (pc[t] = "wait") ~> (pc[t] = "idle")

\* C10 witness: a write failed, its append returned, and another thread
\* holds the lock afterwards.
C10_Witness ==
    /\ appender.writer = "Tcp"
    /\ \E i \in 1..Len(log), t \in Threads :
          /\ log[i].result = "Err" /\ log[i].attempts = 1
          /\ t \in lock /\ t # log[i].thread

=============================================================================
